---- MODULE Spec2Model ----
(***************************************************************************)
(* A model of the database tool (tools/xitool.py, tools/utils/database.py, *)
(* tools/utils/common.py).                                                 *)
(*                                                                         *)
(* Text is modelled character by character: a Python str is a TLA+ string, *)
(* indexed from 1, and every str method the code calls (strip, lower,      *)
(* split, startswith, index, replace, slicing) is an operator below.       *)
(* A fixture file is the list of lines readlines() returns, each with its  *)
(* line ending.                                                            *)
(*                                                                         *)
(* SpecExport is Database.export_table on one table followed by the import *)
(* of the rewritten fixture; SpecMain is one run of main() of xitool.py,   *)
(* from the parsed command line to Common.close; SpecSetups is a sequence  *)
(* of runs of setup on one checkout; SpecSettings is                       *)
(* Common.populate_settings over a defaults and an overrides directory.    *)
(***************************************************************************)
EXTENDS Integers, Sequences, FiniteSets, TLC

VARIABLES
    pc,             \* position of the run
    table_name,     \* export_table's argument
    rows,           \* the rows of the table (cursor.fetchall())
    sql_file,       \* the lines of sql/<table_name>.sql
    sql_before,     \* the lines of that file before the export
    export_failed,  \* export_table took its except branch
    imported,       \* the table after the rewritten fixture is imported
    import_errors,  \* the import reported errors
    args,           \* the parsed command line of xitool
    mysqldump,      \* what the backup process returns: returncode, stderr
    db,             \* the live schema: the rows of each of its tables
    sql_dir,        \* the files of sql/: the lines of each
    db_ver,         \* Common.configs["db_ver"]
    config_yaml,    \* the db_ver that tools/config.yaml holds
    version,        \* Common.version, "" outside a checkout
    sql_diffs,      \* the paths of sql/ that differ between db_ver and version
    init_txt,       \* the lines of modules/init.txt
    bad_files,      \* the files whose import reports an error
    status,         \* main's status
    exit_code,      \* the status the process ends with
    dropped,        \* DROP DATABASE was executed
    imports,        \* the files handed to Database.import_file, in order
    import_files,   \* the list update or create has built
    missing_tables, \* what check_missing returned to update
    exported,       \* the tables handed to Database.export_table, in order
    raised,         \* the tables whose export raised
    backup_file,    \* the name of the backup file written
    backup_errors,  \* the errors the backup reported
    settings_dirs,  \* the entries of settings/default and of settings/
    settings        \* Common.settings

exportVars == <<table_name, rows, sql_file, sql_before, export_failed,
                imported, import_errors>>
mainVars == <<args, mysqldump, db, sql_dir, db_ver, config_yaml, version, sql_diffs,
              init_txt, bad_files, status, exit_code, dropped, imports,
              import_files, missing_tables, exported, raised, backup_file,
              backup_errors, settings_dirs, settings>>

-----------------------------------------------------------------------------
(* Bounds of the model.                                                    *)

MaxLines == 3
MaxRows == 2
NCols == 10

-----------------------------------------------------------------------------
(* Characters.  The parser does not accept a backquote inside a string, so *)
(* BQ stands for the backquote character throughout the model.             *)

BQ == "^"

UpperCase == "ABCDEFGHIJKLMNOPQRSTUVWXYZ"
LowerCase == "abcdefghijklmnopqrstuvwxyz"
Digits == "0123456789"
HexDigits == "0123456789ABCDEF"
\* the characters of codes 32..95 and 97..126, in code order
AsciiFrom32 == " !\"#$%&'()*+,-./0123456789:;<=>?@ABCDEFGHIJKLMNOPQRSTUVWXYZ[\\]^_"
AsciiFrom97 == "abcdefghijklmnopqrstuvwxyz{|}~"

Char(s, i) == SubSeq(s, i, i)

\* s[i:] and s[:i] of Python, for 0 <= i (i counts characters from 0)
From(s, i) == SubSeq(s, i + 1, Len(s))
UpTo(s, i) == SubSeq(s, 1, IF i < Len(s) THEN i ELSE Len(s))

\* the 1-based position in s of each character of s
PositionIn(s) ==
    [c \in { Char(s, i) : i \in 1..Len(s) } |-> CHOOSE i \in 1..Len(s) : Char(s, i) = c]

UpperPos == PositionIn(UpperCase)
DigitPos == PositionIn(Digits)
HexPos == PositionIn(HexDigits)
Ascii32Pos == PositionIn(AsciiFrom32)
Ascii97Pos == PositionIn(AsciiFrom97)

\* ord() and chr() on the printable ASCII range
Ord(c) ==
    IF c = BQ THEN 96
    ELSE IF c \in DOMAIN Ascii32Pos THEN 31 + Ascii32Pos[c]
    ELSE IF c \in DOMAIN Ascii97Pos THEN 96 + Ascii97Pos[c]
    ELSE 0
Chr(b) ==
    IF b = 96 THEN BQ
    ELSE IF b < 96 THEN Char(AsciiFrom32, b - 31)
    ELSE Char(AsciiFrom97, b - 96)

IsSpace(c) == c \in {" ", "\t", "\n", "\r", "\f"}

StartsWith(s, p) == Len(s) >= Len(p) /\ SubSeq(s, 1, Len(p)) = p
EndsWith(s, p) == Len(s) >= Len(p) /\ SubSeq(s, Len(s) - Len(p) + 1, Len(s)) = p

RECURSIVE Find(_, _, _)
\* str.find(sub) from 1-based position i: the 1-based position, 0 when absent
Find(s, sub, i) ==
    IF i + Len(sub) - 1 > Len(s) THEN 0
    ELSE IF SubSeq(s, i, i + Len(sub) - 1) = sub THEN i
    ELSE Find(s, sub, i + 1)

Contains(s, sub) == Find(s, sub, 1) > 0

RECURSIVE LStrip(_)
LStrip(s) == IF Len(s) > 0 /\ IsSpace(Char(s, 1)) THEN LStrip(From(s, 1)) ELSE s
RECURSIVE RStrip(_)
RStrip(s) ==
    IF Len(s) > 0 /\ IsSpace(Char(s, Len(s)))
    THEN RStrip(SubSeq(s, 1, Len(s) - 1)) ELSE s
\* str.strip()
Strip(s) == RStrip(LStrip(s))

LowerChar(c) == IF c \in DOMAIN UpperPos THEN Char(LowerCase, UpperPos[c]) ELSE c
RECURSIVE LowerFrom(_, _)
LowerFrom(s, i) ==
    IF i > Len(s) THEN "" ELSE LowerChar(Char(s, i)) \o LowerFrom(s, i + 1)
\* str.lower()
Lower(s) == LowerFrom(s, 1)

RECURSIVE SplitOn(_, _)
\* str.split(sep): the list of the pieces between the occurrences of sep
SplitOn(s, sep) ==
    LET k == Find(s, sep, 1) IN
    IF k = 0 THEN <<s>>
    ELSE <<SubSeq(s, 1, k - 1)>> \o SplitOn(From(s, k - 1 + Len(sep)), sep)

RECURSIVE TakeWord(_)
\* the leading run of non-whitespace characters
TakeWord(s) ==
    IF s = "" \/ IsSpace(Char(s, 1)) THEN ""
    ELSE Char(s, 1) \o TakeWord(From(s, 1))
RECURSIVE SplitWords(_)
\* str.split(): the whitespace-separated words
SplitWords(s) ==
    LET t == LStrip(s) IN
    IF t = "" THEN <<>>
    ELSE <<TakeWord(t)>> \o SplitWords(From(t, Len(TakeWord(t))))

RECURSIVE Replace(_, _, _)
\* str.replace(c, by) for a single character c
Replace(s, c, by) ==
    LET k == Find(s, c, 1) IN
    IF k = 0 THEN s
    ELSE SubSeq(s, 1, k - 1) \o by \o Replace(From(s, k), c, by)

RECURSIVE Join(_, _)
\* sep.join(list)
Join(list, sep) ==
    IF Len(list) = 0 THEN ""
    ELSE IF Len(list) = 1 THEN list[1]
    ELSE list[1] \o sep \o Join(Tail(list), sep)

RECURSIVE NatToStr(_)
NatToStr(n) ==
    IF n < 10 THEN Char(Digits, n + 1)
    ELSE NatToStr(n \div 10) \o Char(Digits, (n % 10) + 1)
\* str(n) of an int
IntToStr(n) == IF n < 0 THEN "-" \o NatToStr(0 - n) ELSE NatToStr(n)

AllDigits(s) == \A i \in 1..Len(s) : Char(s, i) \in DOMAIN DigitPos
RECURSIVE DigitsToNat(_, _)
\* the number written by the first n characters of s
DigitsToNat(s, n) ==
    IF n = 0 THEN 0 ELSE 10 * DigitsToNat(s, n - 1) + (DigitPos[Char(s, n)] - 1)
\* int(s): whether it parses (an optional sign, then decimal digits), and its value
IsInt(s) ==
    LET body == IF StartsWith(s, "-") \/ StartsWith(s, "+") THEN From(s, 1) ELSE s
    IN body # "" /\ AllDigits(body)
ToInt(s) ==
    IF StartsWith(s, "-") THEN 0 - DigitsToNat(From(s, 1), Len(s) - 1)
    ELSE IF StartsWith(s, "+") THEN DigitsToNat(From(s, 1), Len(s) - 1)
    ELSE DigitsToNat(s, Len(s))

RECURSIVE NatAnd(_, _)
NatAnd(a, b) ==
    IF a = 0 \/ b = 0 THEN 0
    ELSE (a % 2) * (b % 2) + 2 * NatAnd(a \div 2, b \div 2)
RECURSIVE NatOr(_, _)
NatOr(a, b) ==
    IF a = 0 THEN b ELSE IF b = 0 THEN a
    ELSE (IF a % 2 = 1 \/ b % 2 = 1 THEN 1 ELSE 0) + 2 * NatOr(a \div 2, b \div 2)
\* a & b on Python ints (two's complement of unbounded width)
BitAnd(a, b) ==
    IF a >= 0 /\ b >= 0 THEN NatAnd(a, b)
    ELSE IF a < 0 /\ b >= 0 THEN b - NatAnd(0 - a - 1, b)
    ELSE IF a >= 0 /\ b < 0 THEN a - NatAnd(0 - b - 1, a)
    ELSE 0 - 1 - NatOr(0 - a - 1, 0 - b - 1)

HexByte(b) == Char(HexDigits, (b \div 16) + 1) \o Char(HexDigits, (b % 16) + 1)
RECURSIVE HexUpper(_)
\* bytes.hex().upper()
HexUpper(bs) == IF Len(bs) = 0 THEN "" ELSE HexByte(Head(bs)) \o HexUpper(Tail(bs))

RECURSIVE DecodeLatin1(_)
\* bytes.decode('latin_1') (on bytes 32..126)
DecodeLatin1(bs) ==
    IF Len(bs) = 0 THEN "" ELSE Chr(Head(bs)) \o DecodeLatin1(Tail(bs))

-----------------------------------------------------------------------------
(* Values of a fetched row.  k is the Python type of the value: None,      *)
(* bytes (b, a list of byte values), str (s) or int (n).                   *)

NullV == [k |-> "null", b |-> <<>>, s |-> "", n |-> 0]
BytesV(bs) == [k |-> "bytes", b |-> bs, s |-> "", n |-> 0]
StrV(text) == [k |-> "str", b |-> <<>>, s |-> text, n |-> 0]
IntV(num) == [k |-> "int", b |-> <<>>, s |-> "", n |-> num]

-----------------------------------------------------------------------------
(* Database.export_table                                                   *)

\* sql_variables, a dict of value text -> variable name, in insertion order
DictHas(d, key) == \E j \in 1..Len(d) : d[j].key = key
DictGet(d, key) == d[CHOOSE j \in 1..Len(d) : d[j].key = key].val
DictSet(d, key, val) ==
    \* d[key] = val: an existing key keeps its place and gets the new value
    IF DictHas(d, key)
    THEN [j \in 1..Len(d) |-> IF d[j].key = key THEN [key |-> key, val |-> val] ELSE d[j]]
    ELSE Append(d, [key |-> key, val |-> val])

\* the "Scan for variables" step on one line: whether the line declares a
\* variable, its var_name and var_value; err is the IndexError of parts[1]
ScanLine(line) ==
    IF StartsWith(Strip(line), "SET @")
    THEN LET parts == SplitOn(Strip(line), "=") IN
         IF Len(parts) < 2
         THEN [set |-> TRUE, err |-> TRUE, var_name |-> "", var_value |-> ""]
         ELSE [set |-> TRUE, err |-> FALSE,
               var_name |-> SplitWords(parts[1])[2],
               var_value |-> Strip(SplitOn(Replace(parts[2], ";", ""), "--")[1])]
    ELSE [set |-> FALSE, err |-> FALSE, var_name |-> "", var_value |-> ""]

\* the pattern of re.match, for a table name of letters, digits and "_"
InsertPattern(t) == "insert into " \o BQ \o t \o BQ \o " values ("

\* insert_start.end(), or 0 when re.match returns None
InsertStart(t, line) ==
    \* lower() keeps every character's position, so the match only reads the
    \* first len(pattern) characters of the lowered line
    IF Lower(UpTo(Strip(line), Len(InsertPattern(t)))) = InsertPattern(t)
    THEN Len(InsertPattern(t)) ELSE 0

\* a variant of the range test that takes the space for non-printable
IsPrintableWrong(bs) == \A j \in 1..Len(bs) : bs[j] > 32 /\ bs[j] <= 126
\* the loop over the bytes of a value: text stays True
IsPrintable(bs) == \A j \in 1..Len(bs) : ~(bs[j] < 32 \/ bs[j] > 126)

RECURSIVE VarList(_, _, _)
\* the names of the variables whose value has a bit in common with value;
\* err is the ValueError of int(var)
VarList(vars, j, value) ==
    IF j > Len(vars) THEN [err |-> FALSE, names |-> <<>>]
    ELSE IF ~IsInt(vars[j].key) THEN [err |-> TRUE, names |-> <<>>]
    ELSE LET rest == VarList(vars, j + 1, value) IN
         IF BitAnd(value, ToInt(vars[j].key)) # 0
         THEN [err |-> rest.err, names |-> <<vars[j].val>> \o rest.names]
         ELSE rest

FormatBinary(t, i, value) ==
    IF Len(value.b) = 0 THEN "''"
    ELSE IF t = "npc_list" /\ i = 1
    THEN IF IsPrintable(value.b)
         THEN "'" \o DecodeLatin1(value.b) \o "'"
         ELSE "0x" \o HexUpper(value.b)
    ELSE "0x" \o HexUpper(value.b)

\* the text appended to updated_values for column i (from 0) of table t
FormatValue(t, i, value, vars) ==
    IF value.k = "null" THEN [err |-> FALSE, text |-> "NULL"]
    ELSE IF value.k = "bytes" THEN [err |-> FALSE, text |-> FormatBinary(t, i, value)]
    ELSE IF value.k = "str"
    THEN [err |-> FALSE, text |-> "'" \o Replace(value.s, "'", "\\'") \o "'"]
    ELSE IF t = "mob_droplist" /\ i = 5 /\ DictHas(vars, IntToStr(value.n))
    THEN [err |-> FALSE, text |-> DictGet(vars, IntToStr(value.n))]
    ELSE IF t = "pet_skills" /\ i = 9
    THEN LET var_list == VarList(vars, 1, value.n) IN
         [err |-> var_list.err, text |-> Join(var_list.names, " | ")]
    ELSE [err |-> FALSE, text |-> IntToStr(value.n)]

\* updated_values of one row
FormatRow(t, values, vars) ==
    LET fs == [i \in 1..Len(values) |-> FormatValue(t, i - 1, values[i], vars)] IN
    [err |-> \E i \in 1..Len(values) : fs[i].err,
     texts |-> [i \in 1..Len(values) |-> fs[i].text]]

\* a variant that never keeps what followed the statement
TailOfLineDropped(line) == [err |-> FALSE, text |-> "\n"]
\* what follows the new ");": the rest of the line when it has a comment
\* (err is the ValueError of line.index), a line feed otherwise
TailOfLine(line) ==
    IF Contains(line, "--")
    THEN IF ~Contains(line, ");") THEN [err |-> TRUE, text |-> ""]
         ELSE LET insert_end == (Find(line, ");", 1) - 1) + 2
                  before_comment == SplitOn(From(line, insert_end), "--")[1]
              IN [err |-> FALSE,
                  text |-> before_comment
                           \o From(line, insert_end + Len(before_comment))]
    ELSE [err |-> FALSE, text |-> "\n"]

\* a variant that does not advance
NextRowStuck(row_index) == row_index
\* row_index += 1
NextRow(row_index) == row_index + 1

\* a variant that trims the line it saves
KeepLineStripped(line) == Strip(line)
\* "Otherwise just save the line as-is"
KeepLine(line) == line

-----------------------------------------------------------------------------
(* The lines the fixtures of the model are made of.  What the three per-line *)
(* steps of export_table give on each of them is tabulated once.            *)

ExportTables == {"npc_list", "mob_droplist", "pet_skills", "Npc_Names"}

\* the lines a fixture of table t is made of
InsertHead(t) == "INSERT INTO " \o BQ \o t \o BQ \o " VALUES ("
FixtureLines(t) ==
    IF t = "npc_list"
    THEN << "-- note\n",
            InsertHead(t) \o "9,'x');\n",
            InsertHead(t) \o "9); -- c\n",
            InsertHead("zz") \o "9);\n",
            "  insert into " \o BQ \o t \o BQ \o " values (9);  " >>
    ELSE IF t = "Npc_Names"
    THEN << InsertHead(t) \o "9);\n",
            "insert into " \o BQ \o "npc_names" \o BQ \o " values (9);\n" >>
    ELSE IF t = "mob_droplist"
    THEN << "SET @A = 1;\n",
            "SET @B = 2;\n",
            "SET @C = 1; -- one\n",
            InsertHead(t) \o "9);\n" >>
    ELSE << "SET @A = 1;\n",
            "SET @B = 2; -- two\n",
            "SET @C = 1;\n",
            "SET @D = 0x4;\n",
            InsertHead(t) \o "9);\n" >>

KnownLines ==
    UNION { { FixtureLines(t)[j] : j \in 1..Len(FixtureLines(t)) } : t \in ExportTables }

ScanTable == [l \in KnownLines |-> ScanLine(l)] @@ <<>>
StartTable == [t \in ExportTables |-> [l \in KnownLines |-> InsertStart(t, l)] @@ <<>>] @@ <<>>
TailTable == [l \in KnownLines |-> TailOfLine(l)] @@ <<>>

ScanOf(line) == IF line \in KnownLines THEN ScanTable[line] ELSE ScanLine(line)
InsertStartOf(t, line) ==
    IF t \in ExportTables /\ line \in KnownLines THEN StartTable[t][line]
    ELSE InsertStart(t, line)
TailOf(line) == IF line \in KnownLines THEN TailTable[line] ELSE TailOfLine(line)

\* sql_variables after the line is scanned
ScanVariable(line, vars) ==
    LET scan == ScanOf(line) IN
    IF scan.set /\ ~scan.err
    THEN [err |-> FALSE, vars |-> DictSet(vars, scan.var_value, scan.var_name)]
    ELSE [err |-> scan.err, vars |-> vars]

RECURSIVE ExportLines(_, _, _, _, _, _)
\* the loop over sql_lines from line j on; row_index counts from 0
ExportLines(t, table_rows, lines, j, vars, row_index) ==
    IF j > Len(lines) THEN [err |-> FALSE, lines |-> <<>>]
    ELSE
    LET line == lines[j]
        scan == ScanVariable(line, vars)
        insert_start == InsertStartOf(t, line)
    IN
    IF scan.err THEN [err |-> TRUE, lines |-> <<>>]
    ELSE IF insert_start > 0
    THEN IF row_index >= Len(table_rows) THEN [err |-> TRUE, lines |-> <<>>]
         ELSE
         LET fmt == FormatRow(t, table_rows[row_index + 1], scan.vars)
             tail == TailOf(line)
             updated_line == UpTo(line, insert_start)
                             \o Join(fmt.texts, ",") \o ");" \o tail.text
             rest == ExportLines(t, table_rows, lines, j + 1, scan.vars,
                                 NextRow(row_index))
         IN IF fmt.err \/ tail.err THEN [err |-> TRUE, lines |-> <<>>]
            ELSE [err |-> rest.err, lines |-> <<updated_line>> \o rest.lines]
    ELSE
         LET rest == ExportLines(t, table_rows, lines, j + 1, scan.vars, row_index)
         IN [err |-> rest.err, lines |-> <<KeepLine(line)>> \o rest.lines]

\* a variant that collects the declarations of the whole file before the loop
ExportResultPrescanned(t, table_rows, lines) ==
    LET all[j \in 0..Len(lines)] ==
            IF j = 0 THEN <<>> ELSE ScanVariable(lines[j], all[j - 1]).vars
        r == ExportLines(t, table_rows, lines, 1, all[Len(lines)], 0)
    IN IF r.err THEN [err |-> TRUE, lines |-> lines]
       ELSE [err |-> FALSE, lines |-> r.lines]
\* a variant that writes what the loop had produced when it raised
ExportResultTruncating(t, table_rows, lines) ==
    ExportLines(t, table_rows, lines, 1, <<>>, 0)
\* the file after export_table, and whether the except branch was taken
ExportResult(t, table_rows, lines) ==
    LET r == ExportLines(t, table_rows, lines, 1, <<>>, 0) IN
    IF r.err THEN [err |-> TRUE, lines |-> lines]
    ELSE [err |-> FALSE, lines |-> r.lines]

-----------------------------------------------------------------------------
(* Database.import_file of a fixture: what the mysql client makes of the   *)
(* statements of the file (SOURCE <file>).  The fixture recreates its      *)
(* table, so the table afterwards holds the rows of the INSERT statements  *)
(* executed; the client stops at the first statement in error.             *)

\* @name -> value of the user variables set so far, as a list of pairs
UserVarSet(uvars, name, value) ==
    SelectSeq(uvars, LAMBDA e : e.name # name) \o <<[name |-> name, value |-> value]>>
UserVarHas(uvars, name) == \E j \in 1..Len(uvars) : uvars[j].name = name
UserVarGet(uvars, name) == uvars[CHOOSE j \in 1..Len(uvars) : uvars[j].name = name].value

AllHex(s) == \A i \in 1..Len(s) : Char(s, i) \in DOMAIN HexPos
RECURSIVE UnHex(_)
UnHex(s) ==
    IF Len(s) < 2 THEN <<>>
    ELSE <<16 * (HexPos[Char(s, 1)] - 1) + (HexPos[Char(s, 2)] - 1)>>
         \o UnHex(From(s, 2))
RECURSIVE EncodeLatin1(_)
EncodeLatin1(s) == IF s = "" THEN <<>> ELSE <<Ord(Char(s, 1))>> \o EncodeLatin1(From(s, 1))

RECURSIVE OrOfVars(_, _)
\* @a | @b | ...: NULL as soon as one of the variables is not set
OrOfVars(names, uvars) ==
    IF Len(names) = 0 THEN IntV(0)
    ELSE LET name == Strip(Head(names))
             rest == OrOfVars(Tail(names), uvars)
         IN IF ~UserVarHas(uvars, name) \/ rest.k = "null" THEN NullV
            ELSE IntV(NatOr(UserVarGet(uvars, name), rest.n))

\* the value of one unquoted literal or expression
EvalBare(raw, uvars) ==
    LET t == Strip(raw) IN
    IF Lower(t) = "null" THEN [err |-> FALSE, value |-> NullV]
    ELSE IF IsInt(t) THEN [err |-> FALSE, value |-> IntV(ToInt(t))]
    ELSE IF StartsWith(t, "0x") /\ Len(t) > 2 /\ AllHex(From(t, 2)) /\ Len(t) % 2 = 0
    THEN [err |-> FALSE, value |-> BytesV(UnHex(From(t, 2)))]
    ELSE IF StartsWith(t, "@")
            /\ \A j \in 1..Len(SplitOn(t, "|")) :
                   StartsWith(Strip(SplitOn(t, "|")[j]), "@")
    THEN [err |-> FALSE, value |-> OrOfVars(SplitOn(t, "|"), uvars)]
    ELSE [err |-> TRUE, value |-> NullV]

\* the character an escape sequence \e stands for inside a string literal
Unescape(e) ==
    IF e = "n" THEN "\n" ELSE IF e = "t" THEN "\t" ELSE IF e = "r" THEN "\r" ELSE e

RECURSIVE ParseValues(_, _, _, _, _, _, _)
\* the value list of an INSERT statement from position i of s on.  raw is
\* the unquoted text of the current value, text its quoted text, quoted
\* whether it has a string literal, inq whether i is inside that literal
ParseValues(s, i, raw, quoted, text, inq, uvars) ==
    IF i > Len(s) THEN [err |-> TRUE, values |-> <<>>]
    ELSE
    LET c == Char(s, i)
        value == IF quoted
                 THEN [err |-> Strip(raw) # "", value |-> StrV(text)]
                 ELSE EvalBare(raw, uvars)
    IN
    IF inq
    THEN IF c = "\\"
         THEN IF i = Len(s) THEN [err |-> TRUE, values |-> <<>>]
              ELSE ParseValues(s, i + 2, raw, quoted,
                               text \o Unescape(Char(s, i + 1)), TRUE, uvars)
         ELSE IF c = "'"
         THEN IF i < Len(s) /\ Char(s, i + 1) = "'"
              THEN ParseValues(s, i + 2, raw, quoted, text \o "'", TRUE, uvars)
              ELSE ParseValues(s, i + 1, raw, quoted, text, FALSE, uvars)
         ELSE ParseValues(s, i + 1, raw, quoted, text \o c, TRUE, uvars)
    ELSE IF c = "'"
    THEN IF quoted \/ Strip(raw) # "" THEN [err |-> TRUE, values |-> <<>>]
         ELSE ParseValues(s, i + 1, raw, TRUE, text, TRUE, uvars)
    ELSE IF c = ","
    THEN LET rest == ParseValues(s, i + 1, "", FALSE, "", FALSE, uvars) IN
         [err |-> value.err \/ rest.err, values |-> <<value.value>> \o rest.values]
    ELSE IF c = ")"
    THEN [err |-> value.err \/ ~StartsWith(LStrip(From(s, i)), ";"),
          values |-> <<value.value>>]
    ELSE ParseValues(s, i + 1, raw \o c, quoted, text, FALSE, uvars)

\* the table an INSERT statement names: "" when the line is not a well-formed
\* INSERT INTO <quoted name> VALUES ( statement
InsertTarget(line) ==
    LET u == Strip(line)
        head == "insert into " \o BQ
        close == Find(u, BQ, Len(head) + 1)
    IN IF Lower(UpTo(u, Len(head))) = head /\ close > 0
          /\ Lower(SubSeq(u, close + 1, close + 9)) = " values ("
       THEN Lower(SubSeq(u, Len(head) + 1, close - 1)) ELSE ""

\* SET @name = value: the user variables afterwards
ExecSet(line, uvars) ==
    LET parts == SplitOn(Strip(line), "=")
        name == Strip(From(parts[1], 4))
        text == Strip(SplitOn(parts[2], ";")[1])
    IN IF IsInt(text) THEN UserVarSet(uvars, name, ToInt(text))
       ELSE SelectSeq(uvars, LAMBDA e : e.name # name)

RECURSIVE ImportLines(_, _, _, _)
\* the statements from line j on: the rows inserted into table t, and
\* whether a statement was in error
ImportLines(t, lines, j, uvars) ==
    IF j > Len(lines) THEN [err |-> FALSE, rows |-> <<>>]
    ELSE
    LET line == lines[j]
        target == InsertTarget(line)
    IN
    IF StartsWith(Strip(line), "SET @") /\ Len(SplitOn(Strip(line), "=")) >= 2
    THEN ImportLines(t, lines, j + 1, ExecSet(line, uvars))
    ELSE IF Lower(UpTo(Strip(line), 6)) = "insert"
    THEN IF target = "" THEN [err |-> TRUE, rows |-> <<>>]
         ELSE IF target # t THEN ImportLines(t, lines, j + 1, uvars)
         ELSE LET open == Find(Strip(line), "(", 1)
                  parsed == ParseValues(Strip(line), open + 1, "", FALSE, "",
                                        FALSE, uvars)
                  rest == ImportLines(t, lines, j + 1, uvars)
              IN IF parsed.err THEN [err |-> TRUE, rows |-> <<>>]
                 ELSE [err |-> rest.err, rows |-> <<parsed.values>> \o rest.rows]
    ELSE ImportLines(t, lines, j + 1, uvars)

\* the value a column holding original has once the parsed literal is stored
\* in it: a string stored in a binary column is its bytes
Stored(original, parsed) ==
    IF original.k = "bytes" /\ parsed.k = "str" THEN BytesV(EncodeLatin1(parsed.s))
    ELSE parsed

-----------------------------------------------------------------------------
(* The inputs of an export: a table, its rows and its fixture file.        *)

\* readlines() gives every line but the last one a line ending
IsFileOfLines(lines) ==
    \A j \in 1..Len(lines) : j < Len(lines) => Char(lines[j], Len(lines[j])) = "\n"

FixtureFiles(t) ==
    { f \in UNION { [1..n -> { FixtureLines(t)[j] : j \in 1..Len(FixtureLines(t)) }]
                    : n \in 0..MaxLines } : IsFileOfLines(f) }

\* the values a column of table t may hold
ColumnValues(t) ==
    IF t = "npc_list"
    THEN { NullV,
           BytesV(<<>>), BytesV(<<65, 66>>), BytesV(<<32, 126>>), BytesV(<<65, 31>>),
           BytesV(<<127>>), BytesV(<<39>>),
           StrV("ab"), StrV("a'b"), StrV("a\\"),
           IntV(12) }
    ELSE IF t = "mob_droplist"
    THEN { IntV(0), IntV(1), IntV(2), IntV(3), BytesV(<<65, 66>>) }
    ELSE { IntV(0), IntV(1), IntV(2), IntV(3), IntV(0 - 1) }

\* row number id of a table: its key in column 0, value in the columns 1, 5
\* and 9 (the columns export_table formats by table), 0 elsewhere
RowOf(id, value) ==
    [i \in 1..NCols |-> IF i = 1 THEN IntV(id)
                        ELSE IF i \in {2, 6, 10} THEN value ELSE IntV(0)]

TableRows(t) ==
    { [id \in 1..n |-> RowOf(id, value)] : n \in 0..MaxRows, value \in ColumnValues(t) }

-----------------------------------------------------------------------------
(* The file system, the settings and the database of one run of xitool.    *)

\* Python's None for db_ver (no revision is called None)
None == "None"
\* the truth value of a str or None
Truthy(v) == v # None /\ v # ""

\* Common.settings["network"]["SQL_DATABASE"]
SQL_DATABASE == "xidb"
\* Common.root_path
root_path == "/x"
\* os.path.join on POSIX, for a relative b
PathJoin(a, b) == a \o "/" \o b
\* os.path.join(Common.root_path, "sql", filename)
SqlFile(filename) == PathJoin(PathJoin(root_path, "sql"), filename)

protected_tables ==
    << "accounts", "accounts_banned", "auction_house_items", "auction_house",
       "char_blacklist", "char_chocobos", "char_effects", "char_equip",
       "char_equip_saved", "char_exp", "char_history", "char_inventory",
       "char_jobs", "char_job_points", "char_look", "char_merit", "char_pet",
       "char_points", "char_profile", "char_skills", "char_spells",
       "char_stats", "char_storage", "char_style", "char_unlocks",
       "char_vars", "chars", "conquest_system", "delivery_box",
       "ip_exceptions", "linkshells", "server_variables", "unity_system" >>

\* x in list
InList(x, list) == \E j \in 1..Len(list) : list[j] = x

RECURSIVE StrLessFrom(_, _, _)
\* a < b for two str that agree before position i
StrLessFrom(a, b, i) ==
    IF i > Len(b) THEN FALSE
    ELSE IF i > Len(a) THEN TRUE
    ELSE IF Char(a, i) = Char(b, i) THEN StrLessFrom(a, b, i + 1)
    ELSE Ord(Char(a, i)) < Ord(Char(b, i))
StrLess(a, b) == StrLessFrom(a, b, 1)

RECURSIVE InsertSorted(_, _)
InsertSorted(x, list) ==
    IF list = <<>> THEN <<x>>
    ELSE IF StrLess(x, Head(list)) THEN <<x>> \o list
    ELSE <<Head(list)>> \o InsertSorted(x, Tail(list))
RECURSIVE Sorted(_)
\* list.sort() and sorted(list) for a list of str
Sorted(list) ==
    IF list = <<>> THEN <<>> ELSE InsertSorted(Head(list), Sorted(Tail(list)))

RECURSIVE Listing(_)
\* the names of a directory in the order the file system gives them
Listing(names) ==
    IF names = {} THEN <<>>
    ELSE LET f == CHOOSE x \in names : TRUE IN <<f>> \o Listing(names \ {f})

\* the files of modules/
ModuleTree ==
    { PathJoin(root_path, "modules/custom/a.sql"),
      PathJoin(root_path, "modules/custom/sql/b.sql"),
      PathJoin(root_path, "modules/custom/readme.md"),
      PathJoin(root_path, "modules/solo.sql") }

\* the paths os.path.exists() is true of, for the content dir of sql/
ExistingFiles(dir) == { SqlFile(f) : f \in DOMAIN dir } \cup ModuleTree

\* pathlib.Path(path).is_dir()
IsDir(path, files) == \E f \in files : StartsWith(f, path \o "/")

-----------------------------------------------------------------------------
(* Database.fetch_files, check_missing, update, fetch_errors, backup.      *)

\* the changed files of the diff that still exist
DiffFiles(diffs, files) ==
    SelectSeq([j \in 1..Len(diffs) |-> PathJoin(root_path, diffs[j])],
              LAMBDA p : p \in files)

\* a variant that keeps the fixtures of the protected tables
WalkFilesWithProtected(names) ==
    LET kept == SelectSeq(Sorted(Listing(names)), LAMBDA f : EndsWith(f, ".sql"))
    IN [j \in 1..Len(kept) |-> SqlFile(kept[j])]
\* the .sql files of sql/ that are no fixture of a protected table
WalkFiles(names) ==
    LET kept == SelectSeq(Sorted(Listing(names)),
                          LAMBDA f : EndsWith(f, ".sql")
                                     /\ ~InList(UpTo(f, Len(f) - 4), protected_tables))
    IN [j \in 1..Len(kept) |-> SqlFile(kept[j])]

\* list.index(x), from 1; 0 stands for the ValueError
IndexOf(list, x) ==
    IF InList(x, list)
    THEN CHOOSE j \in 1..Len(list) : list[j] = x /\ \A i \in 1..(j - 1) : list[i] # x
    ELSE 0

\* a variant that leaves the sorted list as it is
TriggersStay(list) == list
\* import_files.append(import_files.pop(import_files.index(<triggers.sql>)))
TriggersLast(list) ==
    LET i == IndexOf(list, SqlFile("triggers.sql")) IN
    IF i = 0 THEN list
    ELSE SubSeq(list, 1, i - 1) \o SubSeq(list, i + 1, Len(list)) \o <<list[i]>>

\* the files one line of modules/init.txt adds
ModuleEntry(line, files) ==
    IF ~StartsWith(line, "#") /\ Strip(line) # "" /\ line \notin {"\n", "\r\n"}
    THEN LET path == PathJoin(PathJoin(root_path, "modules"), Strip(line)) IN
         IF IsDir(path, files)
         THEN Sorted(Listing({ f \in files : StartsWith(f, path \o "/")
                                              /\ EndsWith(f, ".sql") }))
         ELSE IF EndsWith(path, ".sql") THEN <<path>> ELSE <<>>
    ELSE <<>>

RECURSIVE ModuleFiles(_, _, _)
ModuleFiles(txt, j, files) ==
    IF j > Len(txt) THEN <<>>
    ELSE ModuleEntry(txt[j], files) \o ModuleFiles(txt, j + 1, files)

\* Database.fetch_files() with Common.configs["db_ver"] = ver
fetch_files(ver, rev, diffs, dir, txt) ==
    LET files == ExistingFiles(dir)
        found == IF Truthy(ver) /\ Truthy(rev)
                 THEN DiffFiles(diffs, files)
                 ELSE WalkFiles(DOMAIN dir)
    IN TriggersLast(Sorted(found)) \o ModuleFiles(txt, 1, files)

\* Database.check_missing(table_list): the rows of the query, one tuple
\* (TABLE_NAME,) for every table of table_list that the schema has
check_missing(table_list, schema) ==
    LET present == SelectSeq(table_list, LAMBDA t : t \in DOMAIN schema) IN
    [j \in 1..Len(present) |-> <<present[j]>>]

\* value == row for a str and a tuple: never equal in Python
StrEqualsTuple(value, row) == FALSE

\* the list Database.update() builds
update_files(schema, ver, rev, diffs, dir, txt) ==
    LET missing == check_missing(protected_tables, schema)
        wanted == SelectSeq(protected_tables,
                      LAMBDA value : ~\E j \in 1..Len(missing) :
                                          StrEqualsTuple(value, missing[j]))
    IN [j \in 1..Len(wanted) |-> SqlFile(wanted[j] \o ".sql")]
       \o fetch_files(ver, rev, diffs, dir, txt)

PasswordWarning == "Using a password on the command line interface can be insecure"

\* the position of the first line break of s, 0 when it has none
FirstBreak(s) ==
    LET breaks == { i \in 1..Len(s) : Char(s, i) \in {"\n", "\r"} } IN
    IF breaks = {} THEN 0 ELSE CHOOSE i \in breaks : \A k \in breaks : i <= k

RECURSIVE SplitLines(_)
\* str.splitlines()
SplitLines(s) ==
    IF s = "" THEN <<>>
    ELSE LET k == FirstBreak(s) IN
         IF k = 0 THEN <<s>>
         ELSE <<SubSeq(s, 1, k - 1)>>
              \o SplitLines(From(s, IF Char(s, k) = "\r" /\ k < Len(s)
                                        /\ Char(s, k + 1) = "\n"
                                     THEN k + 1 ELSE k))

\* a variant that drops only the lines that are the warning and nothing else
fetch_errors_whole_line(stderr) ==
    SelectSeq(SplitLines(stderr), LAMBDA line : line # PasswordWarning)
\* Database.fetch_errors(result)
fetch_errors(stderr) ==
    SelectSeq(SplitLines(stderr), LAMBDA line : ~Contains(line, PasswordWarning))

\* time.strftime('%Y%m%d-%H%M%S') at the time of the run
Timestamp == "20240101-000000"

\* a variant that looks at the recorded revision before the table list
BackupNameRevisionFirst(tables, ver) ==
    SQL_DATABASE \o "-" \o Timestamp \o "-"
    \o (IF Truthy(ver) THEN ver ELSE IF tables # <<>> THEN "lite" ELSE "full")
    \o ".sql"
\* the name of the file Database.backup(out_dir, tables) writes
BackupName(tables, ver) ==
    SQL_DATABASE \o "-" \o Timestamp \o "-"
    \o (IF tables # <<>> THEN "lite" ELSE IF Truthy(ver) THEN ver ELSE "full")
    \o ".sql"

-----------------------------------------------------------------------------
(* Database.import_file, Database.create and the export of several tables. *)

\* result.stderr of the mysql client that imports file
Stderr(file, bad) ==
    "mysql: [Warning] " \o PasswordWarning \o ".\n"
    \o (IF file \in bad THEN "ERROR 1064 (42000) at line 1: syntax error\n" ELSE "")

\* the table a file of sql/ is the fixture of, "" for any other file
TableOf(file, dir) ==
    IF \E f \in DOMAIN dir : file = SqlFile(f) /\ EndsWith(f, ".sql") /\ f # "triggers.sql"
    THEN LET f == CHOOSE f \in DOMAIN dir : file = SqlFile(f) IN UpTo(f, Len(f) - 4)
    ELSE ""

\* the database after Database.import_file(file): a fixture that is
\* imported without errors replaces its table
import_file(schema, dir, file, bad) ==
    LET t == TableOf(file, dir)
        r == ImportLines(t, dir[t \o ".sql"], 1, <<>>)
    IN IF t = "" \/ file \in bad \/ r.err THEN schema
       ELSE [u \in DOMAIN schema \cup {t} |-> IF u = t THEN r.rows ELSE schema[u]]

RECURSIVE ImportAll(_, _, _, _, _)
ImportAll(schema, dir, list, j, bad) ==
    IF j > Len(list) THEN schema
    ELSE ImportAll(import_file(schema, dir, list[j], bad), dir, list, j + 1, bad)

\* Database.create(): the files it lists, the files it imports, the database
\* afterwards and whether errors were collected
create(dir, rev, txt, bad) ==
    LET listed == [j \in 1..Len(protected_tables) |->
                      SqlFile(protected_tables[j] \o ".sql")]
                  \o fetch_files(None, rev, <<>>, dir, txt)
        done == SelectSeq(listed, LAMBDA f : f \in ExistingFiles(dir))
    IN [import_files |-> listed,
        imports |-> done,
        db |-> ImportAll(<<>>, dir, done, 1, bad),
        errors |-> \E j \in 1..Len(done) : fetch_errors(Stderr(done[j], bad)) # <<>>]

\* the files of sql/ once export_table has written the result r for table t
Written(t, dir, r) ==
    [err |-> r.err, dir |-> [dir EXCEPT ![t \o ".sql"] = r.lines]]

\* Database.export_table(t) on the files of sql/: the SELECT fails for a
\* table the schema lacks, open() for a fixture that does not exist
ExportOne(t, schema, dir) ==
    IF t \notin DOMAIN schema \/ (t \o ".sql") \notin DOMAIN dir
    THEN [err |-> TRUE, dir |-> dir]
    ELSE Written(t, dir, ExportResult(t, schema[t], dir[t \o ".sql"]))

\* the tables whose export raised, t after its own export first
Raised(t, err, rest) ==
    [raised |-> (IF err THEN <<t>> ELSE <<>>) \o rest.raised, dir |-> rest.dir]

RECURSIVE ExportMany(_, _, _, _)
RECURSIVE ExportRest(_, _, _, _)
\* export_table for the tables from position j on: the files of sql/
\* afterwards and the tables whose export raised
ExportMany(tables, j, schema, dir) ==
    IF j > Len(tables) THEN [raised |-> <<>>, dir |-> dir]
    ELSE ExportRest(tables, j, schema, ExportOne(tables[j], schema, dir))
\* the exports that follow the export one of the table at position j
ExportRest(tables, j, schema, one) ==
    Raised(tables[j], one.err, ExportMany(tables, j + 1, schema, one.dir))

\* export_tables of export --all, before "triggers" is removed
ExportNames(dir) ==
    LET kept == SelectSeq(Sorted(Listing(DOMAIN dir)), LAMBDA f : EndsWith(f, ".sql"))
    IN [j \in 1..Len(kept) |-> UpTo(kept[j], Len(kept[j]) - 4)]

\* list.remove(x) for an x the list has
Remove(list, x) ==
    SubSeq(list, 1, IndexOf(list, x) - 1) \o SubSeq(list, IndexOf(list, x) + 1, Len(list))

\* a variant of the check of setup that does not ask for --yes
SetupValidNoYes(a) == a.database_name = SQL_DATABASE
\* the checks of setup and of import that come before the command acts
SetupValid(a) == a.yes /\ a.database_name = SQL_DATABASE
ImportValid(a, files) == a.yes /\ a.import_file \in files

-----------------------------------------------------------------------------
(* Common.populate_settings                                                *)

\* what the body of the loop over the lines of a settings file makes of one
\* line: whether it sets a key (set), the key and the value, and whether the
\* line ends in "continue" (skipped)
ParseSetting(line) ==
    IF ~Contains(line, "=")
    THEN [set |-> FALSE, skipped |-> FALSE, key |-> "", val |-> ""]
    ELSE LET text == Replace(line, "\n", "")
             eq == Find(text, "=", 1)
             key == Strip(SubSeq(text, 1, eq - 1))
             val0 == Strip(SplitOn(Strip(From(text, eq)), "--")[1])
             val1 == IF StartsWith(val0, "\"") THEN From(val0, 1) ELSE val0
             val2 == IF EndsWith(val1, ",") THEN UpTo(val1, Len(val1) - 1) ELSE val1
             val == IF EndsWith(val2, "\"") THEN UpTo(val2, Len(val2) - 1) ELSE val2
         IN IF StartsWith(key, "--")
            THEN [set |-> FALSE, skipped |-> TRUE, key |-> key, val |-> ""]
            ELSE [set |-> TRUE, skipped |-> FALSE, key |-> key, val |-> val]

\* d[key] = val on a dict
SetKey(d, key, val) == [k \in DOMAIN d \cup {key} |-> IF k = key THEN val ELSE d[k]]

RECURSIVE ReadSettings(_, _, _)
\* the loop over f.readlines() from line j on: current_settings afterwards,
\* and whether Common.settings[filename_key] was assigned
ReadSettings(current_settings, lines, j) ==
    IF j > Len(lines) THEN [dict |-> current_settings, assigned |-> FALSE]
    ELSE LET p == ParseSetting(lines[j])
             rest == ReadSettings(IF p.set THEN SetKey(current_settings, p.key, p.val)
                                  ELSE current_settings, lines, j + 1)
         IN [dict |-> rest.dict, assigned |-> rest.assigned \/ ~p.skipped]

\* filename[:-4].split(os.sep)[-1]
FilenameKey(filename) ==
    LET parts == SplitOn(UpTo(filename, Len(filename) - 4), "/") IN parts[Len(parts)]

\* Common.settings after one entry of a directory is read
PopulateFile(all, path_to_settings, entry) ==
    IF ~entry.isfile THEN all
    ELSE LET filename_key == FilenameKey(PathJoin(path_to_settings, entry.name))
             known == filename_key \in DOMAIN all
             r == ReadSettings(IF known THEN all[filename_key] ELSE <<>>,
                               entry.lines, 1)
         IN IF known \/ r.assigned THEN SetKey(all, filename_key, r.dict) ELSE all

RECURSIVE PopulateDir(_, _, _, _)
\* the loop over os.listdir(path_to_settings) from entry j on
PopulateDir(all, path_to_settings, entries, j) ==
    IF j > Len(entries) THEN all
    ELSE PopulateDir(PopulateFile(all, path_to_settings, entries[j]),
                     path_to_settings, entries, j + 1)

\* a variant that reads the overrides first and the defaults last
populate_settings_swapped(all, dirs) ==
    PopulateDir(PopulateDir(all, PathJoin(root_path, "settings"), dirs[2], 1),
                PathJoin(PathJoin(root_path, "settings"), "default"), dirs[1], 1)
\* Common.populate_settings(): the defaults directory, then the overrides
populate_settings(all, dirs) ==
    PopulateDir(PopulateDir(all, PathJoin(PathJoin(root_path, "settings"), "default"),
                            dirs[1], 1),
                PathJoin(root_path, "settings"), dirs[2], 1)

-----------------------------------------------------------------------------
(* The inputs of a run: command line, files, database, revisions.          *)

NoArgs ==
    [command |-> "", yes |-> FALSE, database_name |-> "", import_file |-> "",
     table_name |-> "", all |-> FALSE, backup |-> FALSE, lite |-> FALSE]

SetupLines ==
    { [NoArgs EXCEPT !.command = "setup", !.yes = y, !.database_name = n] :
        y \in BOOLEAN, n \in {SQL_DATABASE, "other"} }
UpdateLines == { [NoArgs EXCEPT !.command = c] : c \in {"update", "u"} }
ImportLinesOf(c) ==
    { [NoArgs EXCEPT !.command = c, !.yes = y, !.import_file = f] :
        y \in BOOLEAN,
        f \in {SqlFile("abilities.sql"), PathJoin(root_path, "missing.sql")} }
ExportLinesOf(c) ==
    { [NoArgs EXCEPT !.command = c, !.table_name = t, !.all = a] :
        t \in {"", "abilities", "accounts"}, a \in BOOLEAN }
CommandLines ==
    {NoArgs} \cup SetupLines \cup UpdateLines
    \cup ImportLinesOf("import") \cup ImportLinesOf("i")
    \cup ExportLinesOf("export") \cup ExportLinesOf("e")
WithBackup(a) == { [a EXCEPT !.backup = b, !.lite = l] : b \in BOOLEAN, l \in BOOLEAN }

\* the content of a file of sql/
FixtureOf(f) ==
    IF f = "triggers.sql" THEN << "-- triggers\n" >>
    ELSE IF EndsWith(f, ".sql") THEN << InsertHead(UpTo(f, Len(f) - 4)) \o "9);\n" >>
    ELSE << "notes\n" >>
FixtureNames == {"abilities.sql", "accounts.sql", "triggers.sql", "zone_settings.sql"}
DirOf(names) == [f \in names \cup {"notes.txt"} |-> FixtureOf(f)]
Dirs == { DirOf(names) : names \in SUBSET FixtureNames }
FullDir == DirOf(FixtureNames)

OneRow == << RowOf(1, IntV(7)) >>
\* the live schema: its tables and their rows
Dbs ==
    { [t \in tables |-> OneRow] : tables \in SUBSET {"abilities", "accounts"} }
ExportDbs ==
    UNION { [tables -> {<<>>, OneRow}] :
              tables \in SUBSET {"abilities", "accounts", "zone_settings"} }
FullDb == [t \in {"abilities", "accounts", "zone_settings"} |-> OneRow]

\* the recorded revision, the revision of the sources, and the paths
\* (b_path) of the diff between the two
Revisions ==
    { [db_ver |-> None, version |-> "b2", sql_diffs |-> <<>>],
      [db_ver |-> "a1", version |-> "", sql_diffs |-> <<>>] }
    \cup { [db_ver |-> "a1", version |-> "b2", sql_diffs |-> d] :
             d \in { <<>>,
                     << "sql/triggers.sql", "sql/abilities.sql" >>,
                     << "sql/accounts.sql" >>,
                     << "sql/zone_settings.sql", "sql/triggers.sql",
                        "sql/removed.sql" >> } }

\* modules/init.txt
InitTxts ==
    { <<>>,
      << "# modules\n", "custom\n" >>,
      << "\n", "  solo.sql \n", "custom/readme.md\n" >> }

\* the files whose import reports an error
BadFiles == { {}, {SqlFile("abilities.sql")} }

\* what mysqldump returns
Dumps ==
    { [returncode |-> 0, stderr |-> "mysqldump: [Warning] " \o PasswordWarning \o ".\n"],
      [returncode |-> 0, stderr |-> "-- Warning: Skipping the data of table mysql.event.\n"],
      [returncode |-> 2, stderr |-> "mysqldump: Got error: 1049\n"],
      [returncode |-> 2, stderr |-> ""],
      [returncode |-> 2,
       stderr |-> "error 1\r\nmysqldump: [Warning] " \o PasswordWarning
                  \o ".\n\nerror 2"],
      [returncode |-> 0,
       stderr |-> PasswordWarning \o "\n[Warning] " \o PasswordWarning \o ".\n"] }

-----------------------------------------------------------------------------
(* The inputs of populate_settings: the two directories of settings files. *)

\* the entries of a settings directory: name, whether it is a regular file,
\* and the lines of the file
SettingsFile(name, lines) == [name |-> name, isfile |-> TRUE, lines |-> lines]
Subdirectory(name) == [name |-> name, isfile |-> FALSE, lines |-> <<>>]

\* settings/default/network.lua
DefaultNetwork ==
    { << "-- net\n" >>,
      << "xi.net =\n", "{\n", "  HOST = \"a\", -- h\n", "  PORT = 1,\n", "}\n" >>,
      << "  PORT = 1,\n", "  PORT = 2,\n", "-- HOST = \"b\",\n" >> }
\* settings/network.lua
OverrideNetwork ==
    { <<>>,
      << "  PORT = 3,\n" >>,
      << "-- PORT = 3,\n" >>,
      << "  HOST = \"c--d\",\n", "NAME = x=y" >> }

\* the directories of dirs, and each of them with a file of that name added
WithFile(dirs, name, contents) ==
    dirs \cup { d \cup {SettingsFile(name, c)} : d \in dirs, c \in contents }
\* settings/default: network.lua, with or without main.lua
DefaultDirs ==
    WithFile({ {SettingsFile("network.lua", c)} : c \in DefaultNetwork },
             "main.lua", { << "  LANG = \"en\",\n" >> })
\* settings/: the directory default, with or without network.lua and main.lua
OverrideDirs ==
    WithFile(WithFile({ {Subdirectory("default")} }, "network.lua", OverrideNetwork),
             "main.lua", { << "LANG=\"fr\"\n", "\n" >> })

\* os.listdir: the entries of a directory in any order
Listings(entries) ==
    { l \in [1..Cardinality(entries) -> entries] :
        \A i, j \in 1..Cardinality(entries) : l[i] = l[j] => i = j }

-----------------------------------------------------------------------------
(* The export of one table, then the import of the rewritten fixture.      *)

\* populate_settings is not under study
SettingsIdle ==
    /\ settings_dirs = << <<>>, <<>> >>
    /\ settings = <<>>

\* no run of main is under way
MainIdle ==
    /\ args = NoArgs
    /\ mysqldump = [returncode |-> 0, stderr |-> ""]
    /\ db = <<>>
    /\ sql_dir = <<>>
    /\ db_ver = None
    /\ config_yaml = None
    /\ version = ""
    /\ sql_diffs = <<>>
    /\ init_txt = <<>>
    /\ bad_files = {}
    /\ status = 0
    /\ exit_code = 0
    /\ dropped = FALSE
    /\ imports = <<>>
    /\ import_files = <<>>
    /\ missing_tables = <<>>
    /\ exported = <<>>
    /\ raised = <<>>
    /\ backup_file = ""
    /\ backup_errors = <<>>

InitExport ==
    /\ pc = "export"
    /\ table_name \in ExportTables
    /\ rows \in TableRows(table_name)
    /\ sql_file \in FixtureFiles(table_name)
    /\ sql_before = sql_file
    /\ export_failed = FALSE
    /\ imported = <<>>
    /\ import_errors = FALSE
    /\ MainIdle
    /\ SettingsIdle

\* Database.export_table(table_name)
ExportTable ==
    /\ pc = "export"
    /\ LET r == ExportResult(table_name, rows, sql_file) IN
       /\ sql_file' = r.lines
       /\ export_failed' = r.err
    /\ pc' = "exported"
    /\ UNCHANGED <<table_name, rows, sql_before, imported, import_errors>>
    /\ UNCHANGED mainVars

\* Database.import_file(sql/<table_name>.sql)
ImportFile ==
    /\ pc = "exported"
    /\ LET r == ImportLines(table_name, sql_file, 1, <<>>) IN
       /\ imported' = r.rows
       /\ import_errors' = r.err
    /\ pc' = "imported"
    /\ UNCHANGED <<table_name, rows, sql_file, sql_before, export_failed>>
    /\ UNCHANGED mainVars

vars == <<pc, exportVars, mainVars>>

NextExport == ExportTable \/ ImportFile

SpecExport == InitExport /\ [][NextExport]_vars

-----------------------------------------------------------------------------
(* One run of main() of xitool.py.                                         *)

\* no single export is under way
ExportIdle ==
    /\ table_name = ""
    /\ rows = <<>>
    /\ sql_file = <<>>
    /\ sql_before = <<>>
    /\ export_failed = FALSE
    /\ imported = <<>>
    /\ import_errors = FALSE

\* update and setup over the contents of sql/, the schema, the revisions
\* and the modules
SelectionRuns ==
    /\ args \in UpdateLines \cup { a \in SetupLines : SetupValid(a) }
    /\ mysqldump = [returncode |-> 0, stderr |-> ""]
    /\ db \in Dbs
    /\ sql_dir \in Dirs
    /\ \E r \in Revisions :
          db_ver = r.db_ver /\ version = r.version /\ sql_diffs = r.sql_diffs
    /\ init_txt \in InitTxts
    /\ bad_files \in BadFiles

\* export over the contents of sql/ and the tables of the schema
ExportRuns ==
    /\ args \in ExportLinesOf("export")
    /\ mysqldump = [returncode |-> 0, stderr |-> ""]
    /\ db \in ExportDbs
    /\ sql_dir \in Dirs
    /\ db_ver = "a1" /\ version = "b2" /\ sql_diffs = <<>>
    /\ init_txt = <<>>
    /\ bad_files = {}

\* every command line, with and without a backup, over one checkout
DispatchRuns ==
    /\ args \in UNION { WithBackup(a) : a \in CommandLines }
    /\ mysqldump \in Dumps
    /\ db = FullDb
    /\ sql_dir = FullDir
    /\ db_ver \in {None, "a1"} /\ version = "b2"
    /\ sql_diffs = << "sql/triggers.sql", "sql/abilities.sql" >>
    /\ init_txt = << "# modules\n", "custom\n" >>
    /\ bad_files \in BadFiles

InitMain ==
    /\ pc = "backup"
    /\ ExportIdle
    /\ (SelectionRuns \/ ExportRuns \/ DispatchRuns)
    /\ config_yaml = db_ver
    /\ status = 0
    /\ exit_code = 0
    /\ dropped = FALSE
    /\ imports = <<>>
    /\ import_files = <<>>
    /\ missing_tables = <<>>
    /\ exported = <<>>
    /\ raised = <<>>
    /\ backup_file = ""
    /\ backup_errors = <<>>
    /\ SettingsIdle

\* the environment of a run, which main only reads
inputVars == <<args, mysqldump, version, sql_diffs, init_txt, bad_files,
               settings_dirs, settings>>

\* Common.close(status)
Close(code) ==
    /\ pc' = "closed"
    /\ exit_code' = code

\* main, lines 89-108: the backup, when --backup or --lite is given
BackupStep ==
    /\ pc = "backup"
    /\ IF args.backup \/ args.lite
       THEN /\ backup_file' = BackupName(IF args.lite THEN protected_tables ELSE <<>>,
                                         db_ver)
            /\ backup_errors' = fetch_errors(mysqldump.stderr)
            /\ status' = mysqldump.returncode
       ELSE UNCHANGED <<backup_file, backup_errors, status>>
    /\ pc' = "command"
    /\ UNCHANGED <<exportVars, inputVars, db, sql_dir, db_ver, config_yaml, exit_code,
                   dropped, imports, import_files, missing_tables, exported, raised>>

\* main, line 109: no command is given, or the backup did not return 0
NoCommand ==
    /\ pc = "command"
    /\ status # 0 \/ args.command = ""
    /\ Close(status)
    /\ UNCHANGED <<exportVars, inputVars, db, sql_dir, db_ver, config_yaml, status,
                   dropped, imports, import_files, missing_tables, exported, raised,
                   backup_file, backup_errors>>

\* main, lines 111-123: setup
Setup ==
    /\ pc = "command"
    /\ status = 0 /\ args.command = "setup"
    /\ IF ~SetupValid(args)
       THEN /\ status' = 0 - 1
            /\ UNCHANGED <<db, db_ver, config_yaml, dropped, imports, import_files>>
       ELSE LET r == create(sql_dir, version, init_txt, bad_files) IN
            /\ dropped' = TRUE
            /\ import_files' = r.import_files
            /\ imports' = r.imports
            /\ db' = r.db
            /\ db_ver' = IF r.errors THEN None ELSE version
            /\ config_yaml' = IF r.errors THEN config_yaml ELSE version
            /\ status' = IF r.errors THEN 0 - 1 ELSE status
    /\ Close(status')
    /\ UNCHANGED <<exportVars, inputVars, sql_dir, missing_tables, exported, raised,
                   backup_file, backup_errors>>

\* main, lines 129-132: update
Update ==
    /\ pc = "command"
    /\ status = 0 /\ args.command \in {"u", "update"}
    /\ missing_tables' = check_missing(protected_tables, db)
    /\ import_files' = update_files(db, db_ver, version, sql_diffs, sql_dir, init_txt)
    /\ Close(status)
    /\ UNCHANGED <<exportVars, inputVars, db, sql_dir, db_ver, config_yaml, status,
                   dropped, imports, exported, raised, backup_file, backup_errors>>

\* main, lines 134-159: import
Import ==
    /\ pc = "command"
    /\ status = 0 /\ args.command \in {"i", "import"}
    /\ IF ~ImportValid(args, ExistingFiles(sql_dir))
       THEN /\ status' = 0 - 1
            /\ UNCHANGED <<db, imports>>
       ELSE /\ imports' = << args.import_file >>
            /\ db' = import_file(db, sql_dir, args.import_file, bad_files)
            /\ status' = IF fetch_errors(Stderr(args.import_file, bad_files)) # <<>>
                         THEN 0 - 1 ELSE status
    /\ Close(status')
    /\ UNCHANGED <<exportVars, inputVars, sql_dir, db_ver, config_yaml, dropped,
                   import_files, missing_tables, exported, raised, backup_file,
                   backup_errors>>

\* the tables export hands to export_table
export_tables(a, dir) ==
    IF a.all
    THEN SelectSeq(Remove(ExportNames(dir), "triggers"),
                   LAMBDA t : ~InList(t, protected_tables))
    ELSE << a.table_name >>

\* the exports of export: the tables and what ExportMany gives for them
Exports(tables, r) ==
    /\ exported' = tables
    /\ raised' = r.raised
    /\ sql_dir' = r.dir

\* main, lines 161-191: export
Export ==
    /\ pc = "command"
    /\ status = 0 /\ args.command \in {"e", "export"}
    /\ IF args.table_name = "" /\ ~args.all
       THEN /\ status' = 0 - 1
            /\ Close(status')
            /\ UNCHANGED <<sql_dir, exported, raised>>
       ELSE IF args.all /\ ~InList("triggers", ExportNames(sql_dir))
       THEN \* export_tables.remove("triggers") raises, and nothing catches it
            /\ Close(1)
            /\ UNCHANGED <<status, sql_dir, exported, raised>>
       ELSE /\ Exports(export_tables(args, sql_dir),
                       ExportMany(export_tables(args, sql_dir), 1, db, sql_dir))
            /\ Close(status)
            /\ UNCHANGED status
    /\ UNCHANGED <<exportVars, inputVars, db, db_ver, config_yaml, dropped, imports,
                   import_files, missing_tables, backup_file, backup_errors>>

NextMain == BackupStep \/ NoCommand \/ Setup \/ Update \/ Import \/ Export

SpecMain == InitMain /\ [][NextMain]_vars

-----------------------------------------------------------------------------
(* Runs of setup one after the other on one checkout and one server: the   *)
(* database and tools/config.yaml pass from a run to the next.             *)

\* the command line and the environment of a run of setup
SetupRun(a, dump, rev, bad) ==
    /\ a \in UNION { WithBackup(l) : l \in SetupLines }
    /\ dump \in { d \in Dumps : d.stderr = "" \/ d.returncode = 0 }
    /\ rev \in {"b2", "c3"}
    /\ bad \in BadFiles

\* the first run, on a checkout whose config.yaml was just written
InitSetups ==
    /\ pc = "backup"
    /\ ExportIdle
    /\ SettingsIdle
    /\ SetupRun(args, mysqldump, version, bad_files)
    /\ db = <<>>
    /\ sql_dir = FullDir
    /\ db_ver = None
    /\ config_yaml = None
    /\ sql_diffs = <<>>
    /\ init_txt = <<>>
    /\ status = 0
    /\ exit_code = 0
    /\ dropped = FALSE
    /\ imports = <<>>
    /\ import_files = <<>>
    /\ missing_tables = <<>>
    /\ exported = <<>>
    /\ raised = <<>>
    /\ backup_file = ""
    /\ backup_errors = <<>>

\* the next run starts: Common loads configs from config.yaml (common.py
\* 128-131) and main parses its command line
StartRun ==
    /\ pc = "closed"
    /\ pc' = "backup"
    /\ SetupRun(args', mysqldump', version', bad_files')
    /\ db_ver' = config_yaml
    /\ status' = 0
    /\ exit_code' = 0
    /\ dropped' = FALSE
    /\ imports' = <<>>
    /\ import_files' = <<>>
    /\ missing_tables' = <<>>
    /\ backup_file' = ""
    /\ backup_errors' = <<>>
    /\ UNCHANGED <<exportVars, db, sql_dir, config_yaml, sql_diffs, init_txt,
                   exported, raised, settings_dirs, settings>>

NextSetups == BackupStep \/ NoCommand \/ Setup \/ StartRun

SpecSetups == InitSetups /\ [][NextSetups]_vars

-----------------------------------------------------------------------------
(* Common.populate_settings, called once or more over the same files.      *)

InitSettings ==
    /\ pc = "settings"
    /\ ExportIdle
    /\ MainIdle
    /\ \E d \in DefaultDirs : \E o \in OverrideDirs :
          \E ld \in Listings(d) : \E lo \in Listings(o) : settings_dirs = <<ld, lo>>
    /\ settings = <<>>

\* Common.populate_settings()
PopulateSettings ==
    /\ pc \in {"settings", "populated"}
    /\ settings' = populate_settings(settings, settings_dirs)
    /\ pc' = "populated"
    /\ UNCHANGED <<exportVars, args, mysqldump, db, sql_dir, db_ver, config_yaml,
                   version, sql_diffs, init_txt, bad_files, status, exit_code,
                   dropped, imports, import_files, missing_tables, exported, raised,
                   backup_file, backup_errors, settings_dirs>>

NextSettings == PopulateSettings

SpecSettings == InitSettings /\ [][NextSettings]_vars

-----------------------------------------------------------------------------
(* Claims about export_table.                                              *)

Exported == pc # "export" /\ ~export_failed

\* the lines of the fixture, before the export, that are INSERT lines of the table
Matching == { j \in 1..Len(sql_before) : InsertStartOf(table_name, sql_before[j]) > 0 }
\* line j is the RankOf(j)-th of them
RankOf(j) == Cardinality({ i \in Matching : i <= j })
\* the text that follows the new "(" of rewritten line j
NewValues(j) == From(sql_file[j], InsertStartOf(table_name, sql_before[j]))
\* the text that followed ");" in line j before the export
OldTail(j) == From(sql_before[j], Find(sql_before[j], ");", 1) + 1)

RECURSIVE VarsAt(_)
\* sql_variables once line j of the fixture is scanned
VarsAt(j) == IF j = 0 THEN <<>> ELSE ScanVariable(sql_before[j], VarsAt(j - 1)).vars

\* C1: whether the export succeeds or fails, the file keeps its number of
\* lines, and every line that is not an INSERT line of the exported table is
\* character for character the line it was.
C1_OtherLinesUnchanged ==
    pc # "export" =>
        /\ Len(sql_file) = Len(sql_before)
        /\ \A j \in 1..Len(sql_before) :
               j \notin Matching => sql_file[j] = sql_before[j]

C1_Witness ==
    /\ Exported
    /\ \E j, k \in 1..Len(sql_before) :
           /\ j \notin Matching /\ j < k
           /\ k \in Matching /\ sql_file[k] # sql_before[k]

\* C2: the k-th INSERT line of the table, in file order, is rewritten with
\* the values of the k-th fetched row (whose column 0 holds k), so no row
\* serves two lines.
C2_RowsInOrder ==
    Exported =>
        \A j \in Matching :
            /\ RankOf(j) <= Len(rows)
            /\ StartsWith(NewValues(j), IntToStr(rows[RankOf(j)][1].n) \o ",")
            /\ StartsWith(NewValues(j),
                          Join(FormatRow(table_name, rows[RankOf(j)], VarsAt(j)).texts, ",")
                          \o ");")
            /\ \A i \in Matching : i # j => NewValues(i) # NewValues(j)

C2_Witness ==
    /\ Exported
    /\ Cardinality(Matching) >= 2
    /\ Len(rows) >= 2

C4_RoundTrip ==
    (/\ pc = "imported"
     /\ ~export_failed
     /\ Cardinality(Matching) = Len(rows)
     /\ \A j \in Matching : LStrip(sql_before[j]) = sql_before[j])
    => /\ ~import_errors
       /\ Len(imported) = Len(rows)
       /\ \A k \in 1..Len(rows) :
              /\ Len(imported[k]) = Len(rows[k])
              /\ \A i \in 1..Len(rows[k]) :
                     Stored(rows[k][i], imported[k][i]) = rows[k][i]

\* the text the claim gives for a binary value in column i (from 0)
C5_Expected(t, i, value) ==
    IF Len(value.b) = 0 THEN "''"
    ELSE IF t = "npc_list" /\ i = 1
            /\ ~(\E j \in 1..Len(value.b) : value.b[j] \notin 32..126)
    THEN "'" \o DecodeLatin1(value.b) \o "'"
    ELSE "0x" \o HexUpper(value.b)

\* C5: a binary value is written as '' when empty; in column 1 of npc_list
\* as 0x and upper-case hex if and only if one of its bytes is outside
\* 32..126, as quoted text otherwise; and as hex in every other column or table.
C5_BinaryFormat ==
    Exported =>
        \A j \in Matching :
            LET row == rows[RankOf(j)] IN
            (\A i \in 1..Len(row) : row[i].k = "bytes" \/ i - 1 \notin {1, 5, 9}) =>
                StartsWith(NewValues(j),
                    Join([i \in 1..Len(row) |->
                             IF row[i].k = "bytes"
                             THEN C5_Expected(table_name, i - 1, row[i])
                             ELSE IntToStr(row[i].n)], ",") \o ");")

C5_Witness ==
    /\ Exported
    /\ table_name = "npc_list"
    /\ \E j \in Matching :
           /\ rows[RankOf(j)][2] = BytesV(<<32, 126>>)
           /\ StartsWith(NewValues(j), "1,' ~',0,0,0,0x207E,")

\* the declarations of the lines before line j, in file order
RECURSIVE DeclaredBefore(_)
DeclaredBefore(j) ==
    IF j <= 1 THEN <<>>
    ELSE DeclaredBefore(j - 1)
         \o (IF ScanOf(sql_before[j - 1]).set THEN <<ScanOf(sql_before[j - 1])>> ELSE <<>>)

\* whether the names of list occur in text in that order
RECURSIVE InOrder(_, _)
InOrder(list, declared) ==
    IF Len(list) = 0 THEN TRUE
    ELSE IF Len(declared) = 0 THEN FALSE
    ELSE IF Head(list) = Head(declared).var_name
    THEN InOrder(Tail(list), Tail(declared))
    ELSE InOrder(list, Tail(declared))

\* C6: in column 9 of pet_skills the text names every constant declared on
\* an earlier line whose bit is set in the value, the names joined with
\* " | " in the order of their declarations.
C6_EveryConstantInOrder ==
    (Exported /\ table_name = "pet_skills") =>
        \A j \in Matching :
            LET value == rows[RankOf(j)][10]
                declared == DeclaredBefore(j)
                text == SplitOn(NewValues(j), ",")[10]
                names == SplitOn(SubSeq(text, 1, Find(text, ")", 1) - 1), " | ")
            IN value.k = "int" =>
                /\ \A d \in 1..Len(declared) :
                       BitAnd(value.n, ToInt(declared[d].var_value)) # 0
                           => \E m \in 1..Len(names) : names[m] = declared[d].var_name
                /\ names # <<"">> => InOrder(names, declared)

-----------------------------------------------------------------------------
(* Claims about the selection of files and the dispatch of commands.       *)

Triggers == SqlFile("triggers.sql")
\* update or setup has built its list of files
Selected ==
    /\ pc = "closed"
    /\ args.command \in {"u", "update"} \/ (args.command = "setup" /\ dropped)
\* update has built its list of files
Updated == pc = "closed" /\ status = 0 /\ args.command \in {"u", "update"}
IsModuleFile(file) == StartsWith(file, PathJoin(root_path, "modules") \o "/")
IsProtected(t) == InList(t, protected_tables)

\* C7, as the claim states it: in the list update or setup builds, the
\* triggers fixture, when selected, comes after every other selected file,
\* so it is the last element of the list.
C7_TriggersLastOfAll ==
    Selected =>
        \A j \in 1..Len(import_files) :
            import_files[j] = Triggers => j = Len(import_files)

\* C7, amended: the triggers fixture, when selected, comes after every
\* other selected file of the sql directory; the only files that follow it
\* are the module files named through modules/init.txt.
C7_TriggersLastOfSqlDir ==
    Selected =>
        \A i \in 1..Len(import_files) : \A j \in 1..Len(import_files) :
            (import_files[i] = Triggers /\ j # i) =>
                IF IsModuleFile(import_files[j]) THEN i < j ELSE j < i

\* The triggers fixture is selected with a file of sql/ that sorts after it
\* and with module files, and it stands between the two.
C7_Witness ==
    /\ Selected
    /\ InList(Triggers, import_files)
    /\ InList(SqlFile("zone_settings.sql"), import_files)
    /\ IndexOf(import_files, Triggers) > IndexOf(import_files, SqlFile("zone_settings.sql"))
    /\ IndexOf(import_files, Triggers) < Len(import_files)

\* the fixtures of the protected tables the live schema lacks
MissingFixtures ==
    { SqlFile(protected_tables[j] \o ".sql") :
        j \in { k \in 1..Len(protected_tables) : protected_tables[k] \notin DOMAIN db } }
\* the files of the diff between db_ver and version
ChangedFixtures == { PathJoin(root_path, sql_diffs[j]) : j \in 1..Len(sql_diffs) }

\* C8: when db_ver and version are both known, update selects exactly the
\* fixtures of the tables missing from the live schema and the fixtures
\* that differ between the two revisions (those that still exist).
C8_UpdateSelectsMissingAndChanged ==
    (Updated /\ Truthy(db_ver) /\ Truthy(version)) =>
        /\ \A j \in 1..Len(import_files) :
               import_files[j] \in MissingFixtures \cup ChangedFixtures
        /\ \A f \in MissingFixtures : InList(f, import_files)
        /\ \A f \in ChangedFixtures \cap ExistingFiles(sql_dir) : InList(f, import_files)

\* C9: update never selects the fixture of a protected table that the live
\* schema has, and export --all leaves the fixture of every protected table
\* as it was.
C9_ProtectedUntouched ==
    /\ Updated =>
           \A t \in DOMAIN db :
               IsProtected(t) => ~InList(SqlFile(t \o ".sql"), import_files)
    /\ (pc = "closed" /\ args.command \in {"e", "export"} /\ args.all) =>
           \A f \in DOMAIN sql_dir :
               (EndsWith(f, ".sql") /\ IsProtected(UpTo(f, Len(f) - 4))) =>
                   sql_dir[f] = FixtureOf(f)

\* a request that a check of setup or of import turns down
Invalid ==
    \/ args.command = "setup" /\ ~args.yes
    \/ args.command = "setup" /\ args.database_name # SQL_DATABASE
    \/ args.command \in {"i", "import"} /\ ~args.yes
    \/ args.command \in {"i", "import"} /\ args.import_file \notin ExistingFiles(sql_dir)
BackupFailed == (args.backup \/ args.lite) /\ mysqldump.returncode # 0

-----------------------------------------------------------------------------
(* Claims about the exit code, the backup and export --all.                *)

Closed == pc = "closed"
BackupRan == args.backup \/ args.lite
\* the backup step failed: mysqldump returned nonzero or reported errors
BackupStepFailed == BackupRan /\ (mysqldump.returncode # 0 \/ backup_errors # <<>>)
\* an import of the run reported errors
AnImportFailed ==
    \E j \in 1..Len(imports) : fetch_errors(Stderr(imports[j], bad_files)) # <<>>
\* the export of a table raised
AnExportFailed == raised # <<>>

\* C11: a run that ends with exit code 0 had no failing step, and a run in
\* which the backup step, an import or the export of a table failed ends
\* with exit code -1.
C11_ExitCodeTellsFailure ==
    Closed =>
        /\ exit_code = 0 => ~(BackupStepFailed \/ AnImportFailed \/ AnExportFailed)
        /\ (BackupStepFailed \/ AnImportFailed \/ AnExportFailed) => exit_code = 0 - 1

\* the subcommand was entered: it dropped the database, imported, built its
\* list of files, exported, or turned the request down with status -1
CommandActed ==
    \/ dropped \/ imports # <<>> \/ import_files # <<>> \/ exported # <<>>
    \/ (Closed /\ exit_code = 0 - 1)

\* C12: a requested backup has written its file before the subcommand acts,
\* and once the backup has reported errors the status is nonzero and the
\* subcommand is never entered.
C12_BackupErrorsStopTheRun ==
    /\ pc = "backup" => ~CommandActed
    /\ (BackupRan /\ pc # "backup") => backup_file # ""
    /\ (BackupRan /\ pc # "backup" /\ backup_errors # <<>>) =>
           status # 0 /\ ~CommandActed

\* export --all has gone through its tables
ExportedAll ==
    /\ Closed /\ status = 0
    /\ args.command \in {"e", "export"} /\ args.all
    /\ "triggers.sql" \in DOMAIN sql_dir
\* the tables export --all is to export: the fixtures of sql/ that are not
\* the triggers and not of a protected table
TablesToExport ==
    { UpTo(f, Len(f) - 4) :
        f \in { g \in DOMAIN sql_dir :
                  /\ EndsWith(g, ".sql") /\ g # "triggers.sql"
                  /\ ~IsProtected(UpTo(g, Len(g) - 4)) } }
\* the export of table t cannot succeed: the schema has no such table, or
\* the table has no row for the INSERT line of its fixture
CannotExport(t) == t \notin DOMAIN db \/ db[t] = <<>>
\* the fixture of a table whose only row is OneRow, once exported
FixtureOfOneRow(t) ==
    << InsertHead(t)
       \o Join([i \in 1..NCols |->
                   IF i = 1 THEN "1" ELSE IF i \in {2, 6, 10} THEN "7" ELSE "0"], ",")
       \o ");\n" >>

\* C13: in export --all, the tables whose export raises are recorded and
\* their fixtures are what they were before the run; every table to export
\* is handed to export_table, whatever raised before it, and the fixture of
\* every table whose export succeeds holds the rows of the table.
C13_FailedExportIsIsolated ==
    ExportedAll =>
        /\ { exported[j] : j \in 1..Len(exported) } = TablesToExport
        /\ { raised[j] : j \in 1..Len(raised) } = { t \in TablesToExport : CannotExport(t) }
        /\ \A t \in TablesToExport :
               sql_dir[t \o ".sql"] = IF CannotExport(t) THEN FixtureOf(t \o ".sql")
                                      ELSE FixtureOfOneRow(t)

\* The export of abilities raised and zone_settings, which follows it, was
\* exported from its table.
C13_Witness ==
    /\ ExportedAll
    /\ raised = << "abilities" >>
    /\ exported = << "abilities", "zone_settings" >>
    /\ sql_dir["abilities.sql"] = FixtureOf("abilities.sql")
    /\ sql_dir["zone_settings.sql"] = FixtureOfOneRow("zone_settings")
    /\ sql_dir["zone_settings.sql"] # FixtureOf("zone_settings.sql")

-----------------------------------------------------------------------------
(* Claims about the settings.                                              *)

\* the lines of the file called name in a listing, <<>> when it has none
LinesOf(entries, name) ==
    IF \E j \in 1..Len(entries) : entries[j].name = name /\ entries[j].isfile
    THEN entries[CHOOSE j \in 1..Len(entries) : entries[j].name = name].lines
    ELSE <<>>
\* the lines of a file that define key
Defining(lines, key) ==
    { j \in 1..Len(lines) : ParseSetting(lines[j]).set /\ ParseSetting(lines[j]).key = key }
\* the value the file gives the key: its last definition
ValueIn(lines, key) ==
    ParseSetting(lines[CHOOSE j \in Defining(lines, key) :
                           \A i \in Defining(lines, key) : i <= j]).val
\* the names of the settings files and the keys the files of a name define
SettingsNames ==
    UNION { { settings_dirs[d][j].name :
                j \in { i \in 1..Len(settings_dirs[d]) : settings_dirs[d][i].isfile } }
            : d \in 1..2 }
DefinedIn(lines) ==
    { ParseSetting(lines[j]).key : j \in { i \in 1..Len(lines) : ParseSetting(lines[i]).set } }
KeysOf(name) ==
    DefinedIn(LinesOf(settings_dirs[1], name)) \cup DefinedIn(LinesOf(settings_dirs[2], name))

\* C14: after populate_settings, under the name of every settings file, every
\* key a file of that name defines holds the value of the overrides file when
\* that file defines the key and the value of the defaults file otherwise, no
\* other key is stored, and a further call leaves the mapping as it is.
C14_OverridesWin ==
    pc = "populated" =>
        /\ \A name \in SettingsNames :
               LET stem == UpTo(name, Len(name) - 4)
                   defaults == LinesOf(settings_dirs[1], name)
                   overrides == LinesOf(settings_dirs[2], name)
               IN KeysOf(name) # {} =>
                      /\ stem \in DOMAIN settings
                      /\ DOMAIN settings[stem] = KeysOf(name)
                      /\ \A key \in KeysOf(name) :
                             settings[stem][key] =
                                 IF Defining(overrides, key) # {}
                                 THEN ValueIn(overrides, key)
                                 ELSE ValueIn(defaults, key)
        /\ populate_settings(settings, settings_dirs) = settings

\* The overrides change PORT from the default 1 to 3 and keep the HOST of
\* the defaults.
C14_Witness ==
    /\ pc = "populated"
    /\ "network" \in DOMAIN settings
    /\ DOMAIN settings["network"] = {"xi.net", "HOST", "PORT"}
    /\ settings["network"]["PORT"] = "3"
    /\ settings["network"]["HOST"] = "a"
    /\ ValueIn(LinesOf(settings_dirs[1], "network.lua"), "PORT") = "1"

-----------------------------------------------------------------------------
(* Claims about the backup file, the recorded revision and the helpers.    *)

\* C15: the backup file is named <database>-<timestamp>-<tag>.sql, where the
\* tag is lite when --lite is given (with or without --backup), else the
\* recorded db_ver when one is set, else full; no file without a request.
C15_BackupTag ==
    /\ ~BackupRan => backup_file = ""
    /\ (BackupRan /\ pc # "backup" /\ ~dropped) =>
           backup_file =
               "xidb-20240101-000000-"
               \o (IF args.lite THEN "lite"
                   ELSE IF db_ver \notin {None, ""} THEN db_ver ELSE "full")
               \o ".sql"

\* --backup and --lite together, with a revision recorded: the tag is lite.
C15_Witness ==
    /\ pc = "command"
    /\ args.backup /\ args.lite /\ db_ver = "a1"
    /\ backup_file = "xidb-20240101-000000-lite.sql"

\* a run of setup that called Database.create has ended
SetupDone == Closed /\ args.command = "setup" /\ dropped

\* C16: when a run of setup has ended, whatever runs came before it, a
\* revision persisted in config.yaml is the revision of this run and none of
\* its imports reported errors; after a setup with errors no revision is
\* persisted.
C16_PersistedRevisionIsApplied ==
    SetupDone =>
        /\ config_yaml # None => (config_yaml = version /\ ~AnImportFailed)
        /\ AnImportFailed => config_yaml = None

\* the table names of the rows check_missing returned
NamesOf(result) == { result[j][1] : j \in 1..Len(result) }

\* C17: what check_missing(protected_tables) returns to update names the
\* protected tables that the live schema lacks, and only those.
C17_MissingExactly ==
    Updated =>
        \A j \in 1..Len(protected_tables) :
            protected_tables[j] \in NamesOf(missing_tables)
                <=> protected_tables[j] \notin DOMAIN db

\* the lines of the stderr of mysqldump, and those without the warning
StderrLines == SplitLines(mysqldump.stderr)
ErrorLines == { j \in 1..Len(StderrLines) : ~Contains(StderrLines[j], PasswordWarning) }

\* C18: the errors fetch_errors returns for the backup are the lines of
\* stderr that do not contain the password warning, each once and in the
\* order of stderr; the list is empty exactly when every line of stderr
\* contains the warning (or stderr has no line).
C18_ErrorsAreTheOtherLines ==
    (BackupRan /\ pc # "backup") =>
        /\ Len(backup_errors) = Cardinality(ErrorLines)
        /\ \A j \in ErrorLines :
               backup_errors[Cardinality({ i \in ErrorLines : i <= j })] = StderrLines[j]
        /\ backup_errors = <<>>
               <=> \A j \in 1..Len(StderrLines) : Contains(StderrLines[j], PasswordWarning)

\* The warning stands between two errors and an empty line: the three
\* other lines are returned in their order.
C18_Witness ==
    /\ BackupRan /\ pc # "backup"
    /\ Len(StderrLines) = 4
    /\ Contains(StderrLines[2], PasswordWarning)
    /\ backup_errors = << "error 1", "", "error 2" >>

-----------------------------------------------------------------------------
(* Claims about the INSERT lines of a fixture.                             *)

\* the line, trimmed and in lower case, starts with the INSERT prefix of the
\* table in lower case
IsInsertLineOf(t, line) == StartsWith(Lower(Strip(line)), Lower(InsertHead(t)))

\* C19: export_table takes a line of the fixture for an INSERT line of the
\* table exactly when the trimmed line starts with INSERT INTO `<table>`
\* VALUES (, letter case ignored in the line and in the table name.
C19_InsertLinesAnyCase ==
    pc # "export" =>
        \A j \in 1..Len(sql_before) :
            j \in Matching <=> IsInsertLineOf(table_name, sql_before[j])

\* the text of line j up to and including its opening parenthesis
HeadOf(j) == SubSeq(sql_before[j], 1, Find(sql_before[j], "(", 1))

\* C20: every rewritten INSERT line is the original line up to and
\* including the opening parenthesis of VALUES, leading whitespace and
\* letter case as they were, then the formatted values of its row joined
\* with commas, then ");".
C20_OnlyTheValuesReplaced ==
    Exported =>
        \A j \in Matching :
            StartsWith(sql_file[j],
                       HeadOf(j)
                       \o Join(FormatRow(table_name, rows[RankOf(j)], VarsAt(j)).texts, ",")
                       \o ");")

-----------------------------------------------------------------------------
(* Claim about the constants of mob_droplist.                              *)

\* the declarations of the lines before line j whose value text is the
\* decimal text of num
DeclaredWith(j, num) ==
    SelectSeq(DeclaredBefore(j), LAMBDA d : d.var_value = IntToStr(num))
\* the text written for column 5 (from 0) of rewritten line j
Column5(j) == SplitOn(NewValues(j), ",")[6]

\* C21: in column 5 of mob_droplist a number is written as the name of a
\* constant only when a line before the INSERT line declares a constant of
\* that name with exactly that value, and then as the name of the last such
\* declaration; when no earlier line declares that value the number is
\* written in decimal, whatever the lines after the INSERT line declare.
C21_ConstantsDeclaredEarlier ==
    (Exported /\ table_name = "mob_droplist") =>
        \A j \in Matching :
            LET value == rows[RankOf(j)][6]
                declared == DeclaredWith(j, value.n)
            IN value.k = "int" =>
                /\ Column5(j) # IntToStr(value.n) =>
                       \E d \in 1..Len(declared) : declared[d].var_name = Column5(j)
                /\ Len(declared) = 0 => Column5(j) = IntToStr(value.n)
                /\ Len(declared) > 0 => Column5(j) = declared[Len(declared)].var_name

\* the value 1, @A = 1 declared before the INSERT line and @C = 1 after it
C21_Witness ==
    /\ Exported
    /\ table_name = "mob_droplist"
    /\ sql_before = << "SET @A = 1;\n", InsertHead(table_name) \o "9);\n",
                       "SET @C = 1; -- one\n" >>
    /\ rows = << RowOf(1, IntV(1)) >>
    /\ sql_file[2] = InsertHead(table_name) \o "1,1,0,0,0,@A,0,0,0,1);\n"

-----------------------------------------------------------------------------
(* Claim about the order in which setup imports the fixtures.              *)

\* the positions of imports that hold a file of sql/
Fixtures == { j \in 1..Len(imports) : \E f \in DOMAIN sql_dir : imports[j] = SqlFile(f) }
\* those that hold the fixture of a protected table, and the others
ProtectedFixtures ==
    { j \in Fixtures : \E k \in 1..Len(protected_tables) :
                          imports[j] = SqlFile(protected_tables[k] \o ".sql") }
OtherFixtures == Fixtures \ ProtectedFixtures

\* C22 as stated: setup imports every protected-table fixture before any
\* other fixture, the other fixtures in sorted file-name order, and no
\* fixture twice.
C22_FixturesInSortedOrder ==
    SetupDone =>
        /\ \A i \in ProtectedFixtures : \A j \in OtherFixtures : i < j
        /\ \A i \in OtherFixtures : \A j \in OtherFixtures :
               i < j => StrLess(imports[i], imports[j])
        /\ \A i \in Fixtures : \A j \in 1..Len(imports) :
               imports[i] = imports[j] => i = j

\* C22, amended: setup imports every protected-table fixture before any
\* other fixture; the other fixtures except triggers.sql in sorted
\* file-name order, and triggers.sql after all of them; no fixture twice.
C22_FixturesSortedTriggersLast ==
    SetupDone =>
        /\ \A i \in ProtectedFixtures : \A j \in OtherFixtures : i < j
        /\ \A i \in OtherFixtures : \A j \in OtherFixtures :
               i < j => IF imports[j] = Triggers THEN imports[i] # Triggers
                        ELSE imports[i] # Triggers
                             /\ StrLess(imports[i], imports[j])
        /\ \A i \in Fixtures : \A j \in 1..Len(imports) :
               imports[i] = imports[j] => i = j

\* setup has imported a protected fixture, two other fixtures in sorted
\* order and triggers.sql, which sorts between the two, after both
C22_Witness ==
    /\ SetupDone
    /\ ProtectedFixtures # {}
    /\ \E i \in OtherFixtures : \E j \in OtherFixtures : \E k \in OtherFixtures :
           /\ i < j /\ j < k
           /\ imports[i] = SqlFile("abilities.sql")
           /\ imports[j] = SqlFile("zone_settings.sql")
           /\ imports[k] = Triggers

====
